---- MODULE Spec2Model ----
(***************************************************************************)
(* Model of dbt_manifest_mcp: the version detector (schema_version.py),    *)
(* the field normalizer, the lineage builder, the ingestion pipeline and   *)
(* the query accessors of                                                  *)
(* DbtManifestDB (database.py) over a SQLite store.                        *)
(*                                                                         *)
(* Text is a sequence of one-character strings.  A JSON value is a tagged  *)
(* record: [t |-> "absent"] (key not in the mapping), [t |-> "null"],      *)
(* [t |-> "str", s |-> text], [t |-> "num", n |-> integer], [t |-> "bool", *)
(* b |-> boolean], [t |-> "list", l |-> sequence].  A JSON object whose    *)
(* iteration order matters is a sequence of [k |-> key, v |-> value]       *)
(* entries with distinct keys (a Python dict keeps insertion order).       *)
(***************************************************************************)
EXTENDS Integers, Sequences, FiniteSets, TLC

VARIABLES
    disk,      \* the database file: what every committed transaction left
    conn,      \* what self.db reads: disk plus the open transaction's changes
    in_txn,    \* self.db.in_transaction
    pc,        \* position of refresh_manifest: "idle", the step to run next,
               \* or "returned" when the call has just ended
    man,       \* the manifest document being ingested, NoDoc when idle
    maps,      \* (parent_map, child_map) returned by _extract_lineage_maps
    arg,       \* the kind of manifest_path the running or last call was given
    io,        \* I/O done by the running or last refresh_manifest call
    outcome,   \* how the last refresh_manifest call ended
    pre,       \* conn when the running or last refresh_manifest call began
    preDisk,   \* disk when the running or last refresh_manifest call began
    repeat,    \* the call before this one succeeded on the same document
    prior,     \* how the call before the running or last refresh_manifest ended
    ret,       \* what the last query of this engine returned or raised
    obs,       \* what a second connection to the same file has just read
    din,       \* version detector: the document handed to it
    dout,      \* version detector: what it returned or raised
    vin,       \* SchemaVersionInfo: the version handed to the constructor
    prof,      \* SchemaVersionInfo: the object built
    nin,       \* field normalizer: the manifest key and the definition handed to it
    nout       \* field normalizer: the column values it produced

vars == <<disk, conn, in_txn, pc, man, maps, arg, io, outcome, pre, preDisk,
          repeat, prior, ret, obs, din, dout, vin, prof, nin, nout>>

engineVars == <<disk, conn, in_txn, pc, man, maps, arg, io, outcome, pre, preDisk,
                repeat, prior, ret, obs>>

detectVars == <<din, dout, vin, prof>>

normVars == <<nin, nout>>

----------------------------------------------------------------------------
(* Bounds of the model *)

\* longest dbt_schema_version text handed to the detector alone
MaxStrLen == 4

\* largest version integer handed to the SchemaVersionInfo constructor alone
MaxVersion == 14

\* longest depends_on.nodes list / native map value list
MaxDeps == 2

----------------------------------------------------------------------------
(* JSON values *)

Absent == [t |-> "absent"]

Null == [t |-> "null"]

Str(s) == [t |-> "str", s |-> s]

Num(n) == [t |-> "num", n |-> n]

Bool(b) == [t |-> "bool", b |-> b]

List(l) == [t |-> "list", l |-> l]

\* Python truthiness: a missing key (get returns None), None, "", 0, False
\* and [] are falsy
Truthy(x) ==
    CASE x.t = "absent" -> FALSE
      [] x.t = "null" -> FALSE
      [] x.t = "str" -> x.s # <<>>
      [] x.t = "num" -> x.n # 0
      [] x.t = "bool" -> x.b
      [] x.t = "list" -> x.l # <<>>
      [] OTHER -> TRUE

Digits == <<"0", "1", "2", "3", "4", "5", "6", "7", "8", "9">>

IsDigit(c) == \E i \in 1..10 : Digits[i] = c

DigitVal(c) == (CHOOSE i \in 1..10 : Digits[i] = c) - 1

\* int(text) for a text of decimal digits
RECURSIVE ParseInt(_, _)
ParseInt(s, acc) ==
    IF s = <<>> THEN acc ELSE ParseInt(Tail(s), 10 * acc + DigitVal(Head(s)))

\* str(n) for n >= 0
RECURSIVE FormatNat(_)
FormatNat(n) ==
    IF n < 10 THEN <<Digits[n + 1]>>
    ELSE FormatNat(n \div 10) \o <<Digits[(n % 10) + 1]>>

\* str(n)
FormatInt(n) == IF n < 0 THEN <<"-">> \o FormatNat(0 - n) ELSE FormatNat(n)

\* int(text) as get_schema_info applies it to the stored text
ReadInt(s) ==
    IF s # <<>> /\ Head(s) = "-" THEN 0 - ParseInt(Tail(s), 0) ELSE ParseInt(s, 0)

----------------------------------------------------------------------------
(* schema_version.py *)

SchemaVersionInfo_OffByOne(version) ==
    [version |-> version,
     has_parent_map |-> version > 4,
     has_child_map |-> version > 4,
     node_structure |-> IF version > 4 THEN "modern" ELSE "legacy",
     metadata_location |-> IF version > 1 THEN "metadata" ELSE "root"]

SchemaVersionInfo(version) ==
    [version |-> version,
     has_parent_map |-> version >= 4,
     has_child_map |-> version >= 4,
     node_structure |-> IF version >= 4 THEN "modern" ELSE "legacy",
     metadata_location |-> IF version >= 1 THEN "metadata" ELSE "root"]

\* the end of the longest run of digits of s that starts at position j
RECURSIVE DigitRunEnd(_, _)
DigitRunEnd(s, j) ==
    IF j + 1 <= Len(s) /\ IsDigit(s[j + 1]) THEN DigitRunEnd(s, j + 1) ELSE j

\* v(\d+) matches at position i of s
MatchesAt(s, i) == s[i] = "v" /\ i + 1 <= Len(s) /\ IsDigit(s[i + 1])

\* re.search(r"v(\d+)", s): the leftmost match, its group 1 as text;
\* <<>> (no text of digits is empty) when nothing matches
RECURSIVE re_search_nongreedy(_, _)
re_search_nongreedy(s, i) ==
    IF i > Len(s) THEN <<>>
    ELSE IF MatchesAt(s, i) THEN <<s[i + 1]>>
    ELSE re_search_nongreedy(s, i + 1)

RECURSIVE re_search(_, _)
re_search(s, i) ==
    IF i > Len(s) THEN <<>>
    ELSE IF MatchesAt(s, i) THEN SubSeq(s, i + 1, DigitRunEnd(s, i + 1))
    ELSE re_search(s, i + 1)

DefaultVersion == 12

Raises(exc) == [t |-> "raises", exc |-> exc]

Returns(v) == [t |-> "returns", v |-> v]

\* manifest.get("metadata", {}): the block, or an empty dict when the key is absent
MetadataOrEmpty(doc) ==
    IF doc.metadata.t = "absent" THEN [t |-> "dict", dbt_schema_version |-> Absent]
    ELSE doc.metadata

detect_schema_version(doc) ==
    LET metadata == MetadataOrEmpty(doc) IN
    IF metadata.t # "dict" THEN Raises("AttributeError")
    ELSE LET schema_version == metadata.dbt_schema_version IN
         IF ~Truthy(schema_version) THEN Returns(SchemaVersionInfo(DefaultVersion))
         ELSE IF schema_version.t # "str" THEN Raises("TypeError")
         ELSE LET g == re_search(schema_version.s, 1) IN
              IF g = <<>> THEN Returns(SchemaVersionInfo(DefaultVersion))
              ELSE Returns(SchemaVersionInfo(ParseInt(g, 0)))

----------------------------------------------------------------------------
(* The version detector and the capability profile on their own *)

NotRun == [t |-> "not_run"]

\* characters of the dbt_schema_version texts tried
Chars == {"v", "0", "1", "4", "/"}

\* texts of length n over Chars
RECURSIVE TextsOfLen(_)
TextsOfLen(n) ==
    IF n = 0 THEN {<<>>}
    ELSE {<<c>> \o s : c \in Chars, s \in TextsOfLen(n - 1)}

Texts == UNION {TextsOfLen(n) : n \in 0..MaxStrLen}

\* values of metadata.dbt_schema_version: missing, and of every JSON type
SchemaVersionValues ==
    {Absent, Null, Num(0), Num(4), Bool(FALSE), Bool(TRUE), List(<<>>),
     List(<<Str(<<"v", "4">>)>>)} \cup {Str(s) : s \in Texts}

MetadataDict(value) == [t |-> "dict", dbt_schema_version |-> value]

\* values of the manifest's metadata key: missing, null, a non-object, an object
MetadataBlocks ==
    {Absent, Null, Str(<<"v", "4">>)} \cup {MetadataDict(x) : x \in SchemaVersionValues}

VersionInts == (0 - MaxVersion)..MaxVersion

InitDetect ==
    /\ din \in MetadataBlocks
    /\ dout = NotRun
    /\ vin \in VersionInts
    /\ prof = NotRun
    /\ nin = NotRun
    /\ nout = NotRun

\* detect_schema_version(manifest) on a document whose metadata is din
Detect ==
    /\ dout = NotRun
    /\ dout' = detect_schema_version([metadata |-> din])
    /\ UNCHANGED <<din, vin, prof>>
    /\ UNCHANGED normVars
    /\ UNCHANGED engineVars

\* SchemaVersionInfo(vin)
Construct ==
    /\ prof = NotRun
    /\ prof' = Returns(SchemaVersionInfo(vin))
    /\ UNCHANGED <<din, dout, vin>>
    /\ UNCHANGED normVars
    /\ UNCHANGED engineVars

----------------------------------------------------------------------------
(* Manifest documents *)

\* identifiers of nodes, sources and macros in the documents
Ids == {"a", "b", "c"}

\* the identifiers in collation order; "z" is in no document
IdOrder == <<"a", "b", "c", "z">>

QueryIds == {IdOrder[i] : i \in 1..Len(IdOrder)}

IdVal(id) == [t |-> "id", id |-> id]

Entry(k, v) == [k |-> k, v |-> v]

Dict(e) == [t |-> "dict", e |-> e]

Keys(m) == {m[i].k : i \in 1..Len(m)}

IndexOf(m, k) == CHOOSE i \in 1..Len(m) : m[i].k = k

\* m[k] = v on an insertion-ordered dict
Put(m, k, v) ==
    IF k \in Keys(m) THEN [m EXCEPT ![IndexOf(m, k)].v = v]
    ELSE Append(m, Entry(k, v))

AppendTo_front(m, k, x) ==
    IF k \in Keys(m) THEN [m EXCEPT ![IndexOf(m, k)].v = <<x>> \o @]
    ELSE Append(m, Entry(k, <<x>>))

\* if k not in m: m[k] = []; m[k].append(x)
AppendTo(m, k, x) ==
    IF k \in Keys(m) THEN [m EXCEPT ![IndexOf(m, k)].v = Append(@, x)]
    ELSE Append(m, Entry(k, <<x>>))

\* a node, source or macro definition: the keys of it that the engine reads
Node(unique_id, depends_on_nodes) ==
    [unique_id |-> unique_id, depends_on_nodes |-> depends_on_nodes]

\* node.get("depends_on", {}).get("nodes", [])
DependsOn(node) ==
    IF node.depends_on_nodes.t = "absent" THEN <<>> ELSE node.depends_on_nodes.l

\* entity.get("unique_id", key)
UniqueId(entry) ==
    IF entry.v.unique_id.t = "absent" THEN entry.k ELSE entry.v.unique_id.id

Document(metadata, nodes, sources, macros, parent_map, child_map) ==
    [metadata |-> metadata, nodes |-> nodes, sources |-> sources,
     macros |-> macros, parent_map |-> parent_map, child_map |-> child_map]

----------------------------------------------------------------------------
(* database.py: the lineage builder *)

\* for parent_id in depends_on: child_map[parent_id].append(node_id)
RECURSIVE AppendChild(_, _, _, _)
AppendChild(child_map, depends_on, node_id, j) ==
    IF j > Len(depends_on) THEN child_map
    ELSE AppendChild(AppendTo(child_map, depends_on[j], node_id),
                     depends_on, node_id, j + 1)

\* for node_id, node in manifest.get("nodes", {}).items(): ...
RECURSIVE BuildFromNodes(_, _, _, _)
BuildFromNodes(nodes, i, parent_map, child_map) ==
    IF i > Len(nodes) THEN [parent_map |-> parent_map, child_map |-> child_map]
    ELSE LET node_id == nodes[i].k
             depends_on == DependsOn(nodes[i].v)
         IN  IF depends_on # <<>>
             THEN BuildFromNodes(nodes, i + 1,
                                 Put(parent_map, node_id, depends_on),
                                 AppendChild(child_map, depends_on, node_id, 1))
             ELSE BuildFromNodes(nodes, i + 1, parent_map, child_map)

extract_lineage_maps_ignores_flags(manifest, version_info) ==
    LET parent_map == IF manifest.parent_map.t # "absent"
                      THEN manifest.parent_map.e ELSE <<>>
        child_map == IF manifest.child_map.t # "absent"
                     THEN manifest.child_map.e ELSE <<>>
    IN  IF ~version_info.has_parent_map \/ ~version_info.has_child_map
        THEN BuildFromNodes(manifest.nodes, 1, parent_map, child_map)
        ELSE [parent_map |-> parent_map, child_map |-> child_map]

extract_lineage_maps_always_rebuilds(manifest, version_info) ==
    LET parent_map == IF version_info.has_parent_map /\ manifest.parent_map.t # "absent"
                      THEN manifest.parent_map.e ELSE <<>>
        child_map == IF version_info.has_child_map /\ manifest.child_map.t # "absent"
                     THEN manifest.child_map.e ELSE <<>>
    IN  BuildFromNodes(manifest.nodes, 1, parent_map, child_map)

extract_lineage_maps(manifest, version_info) ==
    LET parent_map == IF version_info.has_parent_map /\ manifest.parent_map.t # "absent"
                      THEN manifest.parent_map.e ELSE <<>>
        child_map == IF version_info.has_child_map /\ manifest.child_map.t # "absent"
                     THEN manifest.child_map.e ELSE <<>>
    IN  IF ~version_info.has_parent_map \/ ~version_info.has_child_map
        THEN BuildFromNodes(manifest.nodes, 1, parent_map, child_map)
        ELSE [parent_map |-> parent_map, child_map |-> child_map]

----------------------------------------------------------------------------
(* database.py: the field normalizer *)

\* node.get(key): the value, None when the key is missing
Get(x) == IF x.t = "absent" THEN Null ELSE x

\* node.get(key, default)
GetOr(x, default) == IF x.t = "absent" THEN default ELSE x

\* a or b
Or(a, b) == IF Truthy(a) THEN a ELSE b

extract_node_properties_legacy_first(node, version_info) ==
    [compiled_code |-> Or(Get(node.compiled_sql), Get(node.compiled_code)),
     raw_code |-> Or(Or(Get(node.raw_sql), Get(node.raw_code)),
                     GetOr(node.sql, Str(<<>>))),
     database |-> Or(Get(node.database_name), Get(node.database)),
     schema |-> Or(Get(node.schema_name), Get(node.schema)),
     alias |-> Or(Get(node.name), Get(node.alias))]

extract_node_properties(node, version_info) ==
    [compiled_code |-> Or(Get(node.compiled_code), Get(node.compiled_sql)),
     raw_code |-> Or(Or(Get(node.raw_code), Get(node.raw_sql)),
                     GetOr(node.sql, Str(<<>>))),
     database |-> Or(Get(node.database), Get(node.database_name)),
     schema |-> Or(Get(node.schema), Get(node.schema_name)),
     alias |-> Or(Get(node.alias), Get(node.name))]

\* the normalized columns of the row refresh_manifest inserts for a node
node_columns(node_id, node, version_info) ==
    LET props == extract_node_properties(node, version_info) IN
    [unique_id |-> IF node.unique_id.t = "absent" THEN node_id ELSE node.unique_id.id,
     compiled_code |-> props.compiled_code,
     raw_code |-> props.raw_code,
     database_name |-> props.database,
     schema_name |-> props.schema,
     alias |-> props.alias]

\* values of a candidate field: missing, null, empty, a text naming the field
FieldValues(c) == {Absent, Null, Str(<<>>), Str(<<c>>)}

\* node definitions handed to the normalizer, under the manifest key "a"
NodeDefinitions ==
    [unique_id : {Absent, IdVal("b")},
     compiled_code : FieldValues("1"), compiled_sql : FieldValues("2"),
     raw_code : {Absent, Str(<<>>), Str(<<"1">>)},
     raw_sql : {Absent, Str(<<>>), Str(<<"2">>)},
     sql : FieldValues("3"),
     database : {Absent, Null, Str(<<"1">>)}, database_name : {Absent, Str(<<"2">>)},
     schema : {Absent, Str(<<"1">>)}, schema_name : {Absent, Str(<<"2">>)},
     alias : {Absent, Str(<<>>), Str(<<"1">>)}, name : {Absent, Str(<<"2">>)}]

InitNormalize ==
    /\ nin \in {[key |-> "a", node |-> n] : n \in NodeDefinitions}
    /\ nout = NotRun

\* the columns computed for the node nin.node stored under the key nin.key
Normalize ==
    /\ nout = NotRun
    /\ nout' = Returns(node_columns(nin.key, nin.node,
                                    SchemaVersionInfo(DefaultVersion)))
    /\ UNCHANGED nin
    /\ UNCHANGED detectVars
    /\ UNCHANGED engineVars

----------------------------------------------------------------------------
(* database.py: the tables *)

NoRows == [x \in {} |-> x]

\* the six tables right after _initialize_tables on a new file
EmptyStore ==
    [metadata |-> NoRows, nodes |-> NoRows, sources |-> NoRows, macros |-> NoRows,
     parent_map |-> {}, child_map |-> {}]

Json(v) == [json |-> v]

\* the row refresh_manifest inserts for one node, source or macro
Row(entry) == [unique_id |-> UniqueId(entry), full_data |-> Json(entry.v)]

\* INSERT of every entry in turn into a table whose primary key is unique_id;
\* the first rejected INSERT raises and leaves the rows inserted before it
RECURSIVE insert_entities(_, _, _)
insert_entities(table, entries, i) ==
    IF i > Len(entries) THEN [ok |-> TRUE, t |-> table]
    ELSE IF UniqueId(entries[i]) \in DOMAIN table THEN [ok |-> FALSE, t |-> table]
    ELSE insert_entities((UniqueId(entries[i]) :> Row(entries[i])) @@ table,
                         entries, i + 1)

\* for key, ids in map.items(): for id in ids: INSERT (key, id); the primary
\* key is the pair
RECURSIVE insert_edges(_, _, _, _)
insert_edges(table, map, i, j) ==
    IF i > Len(map) THEN [ok |-> TRUE, t |-> table]
    ELSE IF j > Len(map[i].v) THEN insert_edges(table, map, i + 1, 1)
    ELSE IF <<map[i].k, map[i].v[j]>> \in table THEN [ok |-> FALSE, t |-> table]
    ELSE insert_edges(table \cup {<<map[i].k, map[i].v[j]>>}, map, i, j + 1)

\* the serialized capability profile
ProfileJson(version_info) ==
    Json([version |-> version_info.version,
          hasParentMap |-> version_info.has_parent_map,
          hasChildMap |-> version_info.has_child_map,
          nodeStructure |-> version_info.node_structure,
          metadataLocation |-> version_info.metadata_location])

\* the rows refresh_manifest inserts into the metadata table, in order
metadata_rows(manifest, version_info) ==
    <<Entry("detected_schema_version", FormatInt(version_info.version)),
      Entry("schema_version_info", ProfileJson(version_info))>>
    \o (IF manifest.metadata.t = "dict"
           /\ manifest.metadata.dbt_schema_version.t # "absent"
        THEN <<Entry("original_dbt_schema_version",
                     Json(manifest.metadata.dbt_schema_version))>>
        ELSE <<>>)

\* INSERT of every row in turn into the metadata table (primary key: key)
RECURSIVE insert_rows(_, _, _)
insert_rows(table, rows, i) ==
    IF i > Len(rows) THEN [ok |-> TRUE, t |-> table]
    ELSE IF rows[i].k \in DOMAIN table THEN [ok |-> FALSE, t |-> table]
    ELSE insert_rows((rows[i].k :> rows[i].v) @@ table, rows, i + 1)

\* DELETE FROM each of the six tables
clear_tables_keep_macros(store) == [EmptyStore EXCEPT !.macros = store.macros]

clear_tables_keep_child_map(store) == [EmptyStore EXCEPT !.child_map = store.child_map]

clear_tables_keep_nodes(store) == [EmptyStore EXCEPT !.nodes = store.nodes]

clear_tables(store) == EmptyStore

\* what a DML statement leaves in the database file: sqlite3.connect with the
\* default isolation_level opens a transaction before the first DELETE or
\* INSERT, so the file keeps its content until commit()
file_after_statement_autocommit(file, view) == view

file_after_statement(file, view) == file

----------------------------------------------------------------------------
(* database.py: the queries, on the tables a connection sees *)

\* SELECT id2 FROM table WHERE id1 = ?: the rows come from the primary-key
\* index on (id1, id2), in its order
select_ids(table, id) ==
    SelectSeq(IdOrder, LAMBDA x : <<id, x>> \in table)

RECURSIVE closure_of(_, _, _)
closure_of(table, seen, n) ==
    IF n = 0 THEN seen
    ELSE closure_of(table, seen \cup {e[2] : e \in {r \in table : r[1] \in seen}}, n - 1)

get_upstream_lineage_transitive(store, model_id) ==
    SelectSeq(IdOrder, LAMBDA x :
        x \in closure_of(store.parent_map,
                         {r[2] : r \in {e \in store.parent_map : e[1] = model_id}},
                         Cardinality(store.parent_map)))

get_upstream_lineage(store, model_id) == select_ids(store.parent_map, model_id)

get_downstream_lineage(store, model_id) == select_ids(store.child_map, model_id)

count_rows_unfiltered(table, id) == Cardinality(table)

\* SELECT COUNT(*) FROM table WHERE id1 = ?
count_rows(table, id) == Cardinality({r \in table : r[1] = id})

get_model_info(store, model_id) ==
    IF model_id \notin DOMAIN store.nodes THEN Raises("ValueError")
    ELSE Returns([unique_id |-> store.nodes[model_id].unique_id,
                  parent_count |-> count_rows(store.parent_map, model_id),
                  child_count |-> count_rows(store.child_map, model_id)])

SupportedFeatures_no_legacy(version_info) ==
    <<"node_parsing", "source_parsing", "macro_parsing">>
    \o (IF version_info.hasParentMap THEN <<"parent_lineage">> ELSE <<>>)
    \o (IF version_info.hasChildMap THEN <<"child_lineage">> ELSE <<>>)
    \o (IF version_info.nodeStructure = "modern"
        THEN <<"modern_node_structure">> ELSE <<>>)

SupportedFeatures(version_info) ==
    <<"node_parsing", "source_parsing", "macro_parsing">>
    \o (IF version_info.hasParentMap THEN <<"parent_lineage">> ELSE <<>>)
    \o (IF version_info.hasChildMap THEN <<"child_lineage">> ELSE <<>>)
    \o (IF version_info.nodeStructure = "modern"
        THEN <<"modern_node_structure">> ELSE <<"legacy_node_structure">>)

get_schema_info(store) ==
    LET m == store.metadata
        version_info == IF "schema_version_info" \in DOMAIN m
                        THEN m["schema_version_info"].json ELSE Null
    IN  [detected_version |->
             IF "detected_schema_version" \in DOMAIN m
             THEN Num(ReadInt(m["detected_schema_version"])) ELSE Null,
         version_info |-> version_info,
         original_schema_version |->
             IF "original_dbt_schema_version" \in DOMAIN m
             THEN m["original_dbt_schema_version"].json ELSE Null,
         supported_features |->
             IF "schema_version_info" \in DOMAIN m
             THEN SupportedFeatures(version_info) ELSE <<>>,
         database_stats |->
             [nodes |-> Cardinality(DOMAIN store.nodes),
              sources |-> Cardinality(DOMAIN store.sources),
              macros |-> Cardinality(DOMAIN store.macros),
              parent_relationships |-> Cardinality(store.parent_map),
              child_relationships |-> Cardinality(store.child_map)]]

\* what the four queries answer on a store, for every identifier asked
View(store) ==
    [upstream |-> [id \in QueryIds |-> get_upstream_lineage(store, id)],
     downstream |-> [id \in QueryIds |-> get_downstream_lineage(store, id)],
     detail |-> [id \in QueryIds |-> get_model_info(store, id)],
     schema |-> get_schema_info(store)]

----------------------------------------------------------------------------
(* The documents refresh_manifest is run on *)

\* sequences over S of length at most n
RECURSIVE SeqsUpTo(_, _)
SeqsUpTo(S, n) ==
    IF n = 0 THEN {<<>>}
    ELSE SeqsUpTo(S, n - 1)
         \cup {Append(q, x) : q \in {r \in SeqsUpTo(S, n - 1) : Len(r) = n - 1}, x \in S}

V2 == MetadataDict(Str(<<"x", "/", "v", "2">>))

V4 == MetadataDict(Str(<<"x", "/", "v", "4">>))

Plain == Node(Absent, Absent)

\* legacy and modern documents whose nodes declare dependencies: a on b
\* (none, an empty list, once, repeated), b on c
NodeDocs ==
    {Document(m, <<Entry("a", Node(Absent, da)), Entry("b", Node(Absent, db))>>,
              <<>>, <<>>, Absent, Absent) :
        m \in {V2, V4},
        da \in {Absent} \cup {List(l) : l \in SeqsUpTo({"b"}, MaxDeps)},
        db \in {Absent, List(<<"c">>)}}

\* documents that carry native maps, mirrored or not, under a modern, a
\* missing and a legacy version
NativeDocs ==
    {Document(m, <<Entry("a", Plain), Entry("b", Plain)>>, <<>>, <<>>, pm, cm) :
        m \in {V4, Absent, V2},
        pm \in {Absent} \cup {Dict(<<Entry("a", l)>>) : l \in SeqsUpTo({"b"}, MaxDeps)},
        cm \in {Absent, Dict(<<Entry("b", <<"a">>)>>)}}

\* documents with sources and macros; a second entity may declare the
\* unique_id of the first
EntityDocs ==
    {Document(V4, n, src, mac, Absent, Absent) :
        n \in {<<>>, <<Entry("a", Plain), Entry("b", Node(IdVal("a"), Absent))>>},
        src \in {<<>>, <<Entry("c", Plain)>>},
        mac \in {<<>>, <<Entry("a", Plain)>>,
                 <<Entry("a", Plain), Entry("b", Node(IdVal("a"), Absent))>>}}

\* documents the version detector raises on
BrokenDocs ==
    {Document(m, <<Entry("a", Plain)>>, <<>>, <<>>, Absent, Absent) :
        m \in {Null, MetadataDict(Num(4))}}

\* a legacy document whose node a has the two parents b and c; a legacy
\* document whose nodes b and a, in that order, both have the parent c; a
\* modern document whose native parent_map and depends_on lists differ
FanDocs ==
    {Document(V2, <<Entry("a", Node(Absent, List(<<"b", "c">>)))>>,
              <<>>, <<>>, Absent, Absent),
     Document(V2, <<Entry("b", Node(Absent, List(<<"c">>))),
                    Entry("a", Node(Absent, List(<<"c">>)))>>,
              <<>>, <<>>, Absent, Absent),
     Document(V4, <<Entry("a", Node(Absent, List(<<"b">>))), Entry("b", Plain)>>,
              <<>>, <<>>, Dict(<<Entry("b", <<"c">>)>>), Absent)}

Manifests == NodeDocs \cup NativeDocs \cup EntityDocs \cup BrokenDocs \cup FanDocs

\* the manifest_path argument: None, "", a path with no file, a file that is
\* not JSON, a file holding a document
Paths ==
    {[t |-> "none"], [t |-> "empty"], [t |-> "missing"], [t |-> "garbage"]}
    \cup {[t |-> "file", doc |-> d] : d \in Manifests}

----------------------------------------------------------------------------
(* DbtManifestDB: one engine on a database file, and a second connection *)

NoDoc == [t |-> "none"]

NoMaps == [parent_map |-> <<>>, child_map |-> <<>>]

NoObs == [t |-> "none"]

Running == [t |-> "running"]

Failed(at, cause) == [t |-> "failed", at |-> at, cause |-> cause]

InitEngine ==
    /\ disk = EmptyStore
    /\ conn = EmptyStore
    /\ in_txn = FALSE
    /\ pc = "idle"
    /\ man = NoDoc
    /\ maps = NoMaps
    /\ arg = "no_call"
    /\ io = {}
    /\ outcome = NotRun
    /\ pre = EmptyStore
    /\ preDisk = EmptyStore
    /\ repeat = FALSE
    /\ prior = "none"
    /\ ret = NotRun
    /\ obs = NoObs

Init ==
    /\ InitEngine
    /\ din = Absent
    /\ dout = NotRun
    /\ vin = 0
    /\ prof = NotRun
    /\ nin = NotRun
    /\ nout = NotRun

\* the summary refresh_manifest returns
Summary(manifest, version_info, lineage) ==
    [version |-> version_info.version,
     nodes |-> Len(manifest.nodes),
     sources |-> Len(manifest.sources),
     macros |-> Len(manifest.macros),
     parent_relationships |-> Len(lineage.parent_map),
     child_relationships |-> Len(lineage.child_map)]

\* not manifest_path
path_not_given_none_only(manifest_path) == manifest_path.t = "none"

path_not_given(manifest_path) == manifest_path.t \in {"none", "empty"}

\* how the call that ended last ended: a query that raised, a refresh that
\* raised, or "none"
last_failure ==
    IF ret.t = "query" THEN (IF ret.res.t = "raises" THEN "not_found" ELSE "none")
    ELSE IF outcome.t = "raises" THEN "invalid_argument"
    ELSE IF outcome.t = "failed" THEN outcome.at
    ELSE "none"

\* refresh_manifest up to the first statement: the argument check, reading
\* the file, detecting the version, building the lineage maps
refresh_manifest(manifest_path) ==
    /\ pc = "idle"
    /\ arg' = manifest_path.t
    /\ prior' = last_failure
    /\ pre' = conn
    /\ preDisk' = disk
    /\ ret' = NotRun
    /\ obs' = NoObs
    /\ repeat' = (manifest_path.t = "file" /\ outcome.t = "ok"
                  /\ outcome.doc = manifest_path.doc)
    /\ IF path_not_given(manifest_path)
       THEN /\ outcome' = Raises("ValueError")
            /\ io' = {}
            /\ pc' = "returned"
            /\ UNCHANGED <<disk, conn, in_txn, man, maps>>
       ELSE IF manifest_path.t \in {"missing", "empty"}
       THEN /\ outcome' = Failed("read", "FileNotFoundError")
            /\ io' = {"open"}
            /\ pc' = "returned"
            /\ UNCHANGED <<disk, conn, in_txn, man, maps>>
       ELSE IF manifest_path.t = "garbage"
       THEN /\ outcome' = Failed("read", "JSONDecodeError")
            /\ io' = {"open"}
            /\ pc' = "returned"
            /\ UNCHANGED <<disk, conn, in_txn, man, maps>>
       ELSE LET d == detect_schema_version(manifest_path.doc) IN
            IF d.t = "raises"
            THEN /\ outcome' = Failed("detect", d.exc)
                 /\ io' = {"open"}
                 /\ pc' = "returned"
                 /\ man' = manifest_path.doc
                 /\ UNCHANGED <<disk, conn, in_txn, maps>>
            ELSE /\ outcome' = Running
                 /\ io' = {"open"}
                 /\ pc' = "clear"
                 /\ man' = manifest_path.doc
                 /\ maps' = extract_lineage_maps(manifest_path.doc, d.v)
                 /\ UNCHANGED <<disk, conn, in_txn>>
    /\ UNCHANGED detectVars
    /\ UNCHANGED normVars

\* a statement raised: refresh_manifest wraps and re-raises; nothing rolls
\* the open transaction back
Abort(at, view) ==
    /\ conn' = view
    /\ disk' = file_after_statement(disk, view)
    /\ in_txn' = TRUE
    /\ outcome' = Failed(at, "IntegrityError")
    /\ pc' = "returned"
    /\ maps' = NoMaps
    /\ UNCHANGED man

\* a step ran: on to the next one
Proceed(next, view) ==
    /\ conn' = view
    /\ disk' = file_after_statement(disk, view)
    /\ in_txn' = TRUE
    /\ pc' = next
    /\ UNCHANGED <<outcome, man, maps>>

\* DELETE FROM metadata, nodes, sources, macros, parent_map, child_map
refresh_clear ==
    /\ pc = "clear"
    /\ Proceed("metadata", clear_tables(conn))
    /\ io' = io \cup {"sql"}
    /\ obs' = NoObs
    /\ UNCHANGED <<arg, pre, preDisk, repeat, prior, ret>>
    /\ UNCHANGED detectVars
    /\ UNCHANGED normVars

\* INSERT INTO metadata: the version, the profile, the original block
refresh_insert_metadata ==
    /\ pc = "metadata"
    /\ LET r == insert_rows(conn.metadata,
                            metadata_rows(man, detect_schema_version(man).v), 1)
       IN  IF r.ok THEN Proceed("records", [conn EXCEPT !.metadata = r.t])
           ELSE Abort("metadata", [conn EXCEPT !.metadata = r.t])
    /\ obs' = NoObs
    /\ UNCHANGED <<arg, io, pre, preDisk, repeat, prior, ret>>
    /\ UNCHANGED detectVars
    /\ UNCHANGED normVars

\* INSERT INTO nodes, then sources, then macros
refresh_insert_records ==
    /\ pc = "records"
    /\ LET n == insert_entities(conn.nodes, man.nodes, 1)
           s == insert_entities(conn.sources, man.sources, 1)
           m == insert_entities(conn.macros, man.macros, 1)
       IN  IF ~n.ok THEN Abort("records", [conn EXCEPT !.nodes = n.t])
           ELSE IF ~s.ok
           THEN Abort("records", [conn EXCEPT !.nodes = n.t, !.sources = s.t])
           ELSE IF ~m.ok
           THEN Abort("records", [conn EXCEPT !.nodes = n.t, !.sources = s.t,
                                              !.macros = m.t])
           ELSE Proceed("edges", [conn EXCEPT !.nodes = n.t, !.sources = s.t,
                                              !.macros = m.t])
    /\ obs' = NoObs
    /\ UNCHANGED <<arg, io, pre, preDisk, repeat, prior, ret>>
    /\ UNCHANGED detectVars
    /\ UNCHANGED normVars

\* INSERT INTO parent_map, then child_map
refresh_insert_edges ==
    /\ pc = "edges"
    /\ LET p == insert_edges(conn.parent_map, maps.parent_map, 1, 1)
           c == insert_edges(conn.child_map, maps.child_map, 1, 1)
       IN  IF ~p.ok THEN Abort("edges", [conn EXCEPT !.parent_map = p.t])
           ELSE IF ~c.ok
           THEN Abort("edges", [conn EXCEPT !.parent_map = p.t, !.child_map = c.t])
           ELSE Proceed("commit", [conn EXCEPT !.parent_map = p.t, !.child_map = c.t])
    /\ obs' = NoObs
    /\ UNCHANGED <<arg, io, pre, preDisk, repeat, prior, ret>>
    /\ UNCHANGED detectVars
    /\ UNCHANGED normVars

\* self.db.commit(), then the summary
refresh_commit ==
    /\ pc = "commit"
    /\ disk' = conn
    /\ in_txn' = FALSE
    /\ outcome' = [t |-> "ok", doc |-> man,
                   summary |-> Summary(man, detect_schema_version(man).v, maps)]
    /\ pc' = "returned"
    /\ maps' = NoMaps
    /\ obs' = NoObs
    /\ UNCHANGED <<conn, man, arg, io, pre, preDisk, repeat, prior, ret>>
    /\ UNCHANGED detectVars
    /\ UNCHANGED normVars

\* the caller has the summary or the exception; the engine waits for the
\* next call
refresh_returns ==
    /\ pc = "returned"
    /\ pc' = "idle"
    /\ pre' = conn
    /\ preDisk' = disk
    /\ arg' = "no_call"
    /\ io' = {}
    /\ repeat' = FALSE
    /\ prior' = "none"
    /\ man' = NoDoc
    /\ obs' = NoObs
    /\ UNCHANGED <<disk, conn, in_txn, maps, outcome, ret>>
    /\ UNCHANGED detectVars
    /\ UNCHANGED normVars

\* what the statements of a query leave in the tables: every one of them is
\* a SELECT
store_after_select_deleting(store) == EmptyStore

store_after_select(store) == store

Query(op, model_id, result) ==
    /\ pc = "idle"
    /\ ret' = [t |-> "query", op |-> op, id |-> model_id, res |-> result]
    /\ conn' = store_after_select(conn)
    /\ disk' = file_after_statement(disk, conn')
    /\ obs' = NoObs
    /\ UNCHANGED <<in_txn, pc, man, maps, arg, io, outcome, pre, preDisk,
                   repeat, prior>>
    /\ UNCHANGED detectVars
    /\ UNCHANGED normVars

upstreamOf(model_id) ==
    Query("get_upstream_lineage", model_id,
          Returns(get_upstream_lineage(conn, model_id)))

downstreamOf(model_id) ==
    Query("get_downstream_lineage", model_id,
          Returns(get_downstream_lineage(conn, model_id)))

nodeDetail(model_id) ==
    Query("get_model_info", model_id, get_model_info(conn, model_id))

schemaInfo ==
    Query("get_schema_info", "z", Returns(get_schema_info(conn)))

\* a second DbtManifestDB on the same file runs the four queries: its
\* connection reads what is committed
other_connection_reads ==
    /\ obs' = [t |-> "read", at |-> pc, view |-> View(disk)]
    /\ UNCHANGED <<disk, conn, in_txn, pc, man, maps, arg, io, outcome, pre, preDisk,
                   repeat, prior, ret>>
    /\ UNCHANGED detectVars
    /\ UNCHANGED normVars

Next ==
    \/ \E manifest_path \in Paths : refresh_manifest(manifest_path)
    \/ refresh_clear
    \/ refresh_insert_metadata
    \/ refresh_insert_records
    \/ refresh_insert_edges
    \/ refresh_commit
    \/ refresh_returns
    \/ \E model_id \in QueryIds : upstreamOf(model_id)
    \/ \E model_id \in QueryIds : downstreamOf(model_id)
    \/ \E model_id \in QueryIds : nodeDetail(model_id)
    \/ schemaInfo
    \/ other_connection_reads

Spec == Init /\ [][Next]_vars

NextDetect == Detect \/ Construct

InitDetectOnly == InitEngine /\ InitDetect

SpecDetect == InitDetectOnly /\ [][NextDetect]_vars

NextNormalize == Normalize

InitNormalizeOnly ==
    /\ InitEngine
    /\ din = Absent
    /\ dout = NotRun
    /\ vin = 0
    /\ prof = NotRun
    /\ InitNormalize

SpecNormalize == InitNormalizeOnly /\ [][NextNormalize]_vars

----------------------------------------------------------------------------
(* Claims *)

\* the tables a refresh of document d writes when it starts from empty tables
Ingested(d) ==
    LET version_info == detect_schema_version(d).v
        lineage == extract_lineage_maps(d, version_info)
    IN  [metadata |-> insert_rows(NoRows, metadata_rows(d, version_info), 1).t,
         nodes |-> insert_entities(NoRows, d.nodes, 1).t,
         sources |-> insert_entities(NoRows, d.sources, 1).t,
         macros |-> insert_entities(NoRows, d.macros, 1).t,
         parent_map |-> insert_edges({}, lineage.parent_map, 1, 1).t,
         child_map |-> insert_edges({}, lineage.child_map, 1, 1).t]

Elements(q) == {q[i] : i \in 1..Len(q)}

\* C1: when refresh fails after the clearing of the tables has begun, the four
\* queries of the same engine answer afterwards what they answered before the
\* call: the prior state is neither cleared nor half-written.
C1_FailedRefreshKeepsPriorState ==
    (pc = "returned" /\ outcome.t = "failed" /\ "sql" \in io)
        => View(conn) = View(pre)

\* C2: after every successful refresh the two persisted lineage maps are exact
\* inverses: p is upstream of c exactly when c is downstream of p.
C2_LineageMapsAreInverses ==
    (pc = "returned" /\ outcome.t = "ok")
        => \A c \in QueryIds, p \in QueryIds :
               (p \in Elements(get_upstream_lineage(conn, c)))
               <=> (c \in Elements(get_downstream_lineage(conn, p)))

\* C3: a reader on its own connection that runs while a refresh is at any of
\* its steps, or right after it, reads either the complete state from before
\* the refresh or the complete state the refresh writes, never the cleared or
\* a partly rewritten one.
C3_ReaderSeesPreOrPostState ==
    obs.t = "read"
        => \/ obs.view = View(preDisk)
           \/ (outcome.t = "ok" /\ obs.view = View(Ingested(outcome.doc)))

\* C3 witness: the reader has read while the engine's own tables are cleared
\* and the file still holds rows
C3_Witness ==
    /\ obs.t = "read"
    /\ obs.at = "metadata"
    /\ conn = EmptyStore
    /\ DOMAIN preDisk.nodes # {}
    /\ preDisk.parent_map # {}

\* C4: refresh without a path (None or "") raises the invalid-argument error,
\* not the wrapped ingestion failure, before any file or storage I/O, and
\* leaves every table as it was.
C4_NoPathFailsBeforeAnyIO ==
    (pc = "returned" /\ arg \in {"none", "empty"})
        => /\ outcome = Raises("ValueError")
           /\ io = {}
           /\ conn = pre
           /\ disk = preDisk

\* C4 witness: the call without a path came on an engine that holds rows
C4_Witness ==
    /\ pc = "returned"
    /\ arg = "empty"
    /\ outcome = Raises("ValueError")
    /\ DOMAIN conn.nodes # {}

\* C5: a refresh of the document that the call before it ingested succeeds
\* and leaves the same records, metadata and lineage edges.
C5_RefreshIsIdempotent ==
    (pc = "returned" /\ repeat)
        => /\ outcome.t = "ok"
           /\ conn = pre
           /\ disk = preDisk
           /\ View(conn) = View(pre)

\* C5 witness: the second refresh of a document with lineage edges has ended
C5_Witness ==
    /\ pc = "returned"
    /\ repeat
    /\ outcome.t = "ok"
    /\ conn.parent_map # {}
    /\ conn.child_map # {}

\* C6: after a successful refresh the tables hold what the document just
\* ingested determines and nothing else, whatever was in them before.
C6_RefreshIsFullReplace ==
    (pc = "returned" /\ outcome.t = "ok")
        => /\ conn = Ingested(outcome.doc)
           /\ disk = conn
           /\ ~in_txn

\* C6 witness: the refresh replaced macros and an original_ metadata key that
\* its own document does not have, after an earlier refresh had failed
C6_Witness ==
    /\ pc = "returned"
    /\ outcome.t = "ok"
    /\ DOMAIN pre.macros # {}
    /\ DOMAIN conn.macros = {}
    /\ "original_dbt_schema_version" \in DOMAIN pre.metadata
    /\ "original_dbt_schema_version" \notin DOMAIN conn.metadata
    /\ pre # preDisk

\* C7: the profile built for version V has hasParentMap = hasChildMap =
\* (V >= 4), nodeStructure modern exactly when V >= 4 and legacy otherwise,
\* metadataLocation root exactly when V < 1 and metadata otherwise.
C7_ProfileMatchesVersion ==
    prof.t = "returns"
        => /\ prof.v.version = vin
           /\ prof.v.has_parent_map = (vin >= 4)
           /\ prof.v.has_child_map = (vin >= 4)
           /\ prof.v.node_structure = (IF vin >= 4 THEN "modern" ELSE "legacy")
           /\ prof.v.metadata_location = (IF vin < 1 THEN "root" ELSE "metadata")

\* C7 witness: the profile of the boundary version 4
C7_Witness == prof.t = "returns" /\ vin = 4 /\ prof.v.node_structure = "modern"

\* a v followed by a digit stands at position i of s
PatternAt(s, i) == i < Len(s) /\ s[i] = "v" /\ IsDigit(s[i + 1])

HasPattern(s) == \E i \in 1..Len(s) : PatternAt(s, i)

\* the run of digits after the first v that a digit follows
FirstRun(s) ==
    LET i == CHOOSE k \in 1..Len(s) :
                 PatternAt(s, k) /\ \A j \in 1..(k - 1) : ~PatternAt(s, j)
        e == CHOOSE k \in (i + 1)..Len(s) :
                 /\ \A j \in (i + 1)..k : IsDigit(s[j])
                 /\ (k = Len(s) \/ ~IsDigit(s[k + 1]))
    IN  SubSeq(s, i + 1, e)

\* the integer a text of digits denotes
RECURSIVE Decimal(_)
Decimal(d) ==
    IF d = <<>> THEN 0
    ELSE 10 * Decimal(SubSeq(d, 1, Len(d) - 1)) + DigitVal(d[Len(d)])

\* C8: detection returns the integer formed by the first run of digits that
\* follows a v in metadata.dbt_schema_version, and 12 when the metadata block
\* or the key is absent or the text has no v<digits>.
C8_DetectedVersion ==
    (dout # NotRun
     /\ (din.t = "absent"
         \/ (din.t = "dict" /\ din.dbt_schema_version.t \in {"absent", "str"})))
        => /\ dout.t = "returns"
           /\ dout.v.version =
                  IF din.t = "dict" /\ din.dbt_schema_version.t = "str"
                     /\ HasPattern(din.dbt_schema_version.s)
                  THEN Decimal(FirstRun(din.dbt_schema_version.s))
                  ELSE 12

\* C8 witness: a text whose first v has no digit after it and whose run has
\* a leading zero
C8_Witness ==
    /\ dout.t = "returns"
    /\ din = MetadataDict(Str(<<"v", "v", "0", "4">>))
    /\ dout.v.version = 4

\* C9: detection is total: whatever the metadata block and the value of
\* dbt_schema_version are, it raises nothing and returns a profile.
C9_DetectionIsTotal == dout # NotRun => dout.t = "returns"

\* C10: get_upstream_lineage and get_downstream_lineage never raise; they
\* return the direct parents (children) of the identifier, each once, and the
\* empty list for an identifier that has none or is unknown.
C10_LineageQueriesAreTotalAndDirect ==
    (ret.t = "query" /\ ret.op \in {"get_upstream_lineage", "get_downstream_lineage"})
        => LET table == IF ret.op = "get_upstream_lineage"
                        THEN conn.parent_map ELSE conn.child_map
           IN  /\ ret.res.t = "returns"
               /\ Elements(ret.res.v) = {r[2] : r \in {e \in table : e[1] = ret.id}}
               /\ Len(ret.res.v) = Cardinality(Elements(ret.res.v))
               /\ (ret.id \notin {e[1] : e \in table} => ret.res.v = <<>>)

\* C10 witness: a has parent b and b has parent c; the query for a returned b alone
C10_Witness ==
    /\ ret.t = "query"
    /\ ret.op = "get_upstream_lineage"
    /\ ret.id = "a"
    /\ ret.res = Returns(<<"b">>)
    /\ <<"b", "c">> \in conn.parent_map

\* C11: get_model_info raises the not-found error exactly when the nodes
\* table has no row with the identifier (also on a store never refreshed);
\* otherwise it returns that row with parent_count and child_count equal to
\* the lengths of what get_upstream_lineage and get_downstream_lineage return.
C11_NodeDetailFailsIffNoRecord ==
    (ret.t = "query" /\ ret.op = "get_model_info")
        => /\ (ret.res.t = "raises") <=> (ret.id \notin DOMAIN conn.nodes)
           /\ ret.res.t = "raises" => ret.res.exc = "ValueError"
           /\ ret.res.t = "returns"
                  => /\ ret.res.v.unique_id = ret.id
                     /\ ret.res.v.parent_count
                            = Len(get_upstream_lineage(conn, ret.id))
                     /\ ret.res.v.child_count
                            = Len(get_downstream_lineage(conn, ret.id))

\* C11 witness: the detail of b, which has one parent and one child among
\* two edges
C11_Witness ==
    /\ ret.t = "query"
    /\ ret.op = "get_model_info"
    /\ ret.id = "b"
    /\ ret.res.t = "returns"
    /\ ret.res.v.parent_count = 1
    /\ ret.res.v.child_count = 1
    /\ Cardinality(conn.parent_map) = 2

\* C12: the summary of a successful refresh reports, as parent and child
\* relationships, the numbers of lineage edges persisted in each orientation
\* (what get_schema_info counts right after), and as nodes, sources and
\* macros the numbers of rows persisted.
C12_SummaryCountsPersistedEdges ==
    (pc = "returned" /\ outcome.t = "ok")
        => LET stats == get_schema_info(conn).database_stats IN
           /\ outcome.summary.parent_relationships = stats.parent_relationships
           /\ outcome.summary.child_relationships = stats.child_relationships
           /\ outcome.summary.nodes = stats.nodes
           /\ outcome.summary.sources = stats.sources
           /\ outcome.summary.macros = stats.macros

\* the claim of C13 about a feature list f and a stored profile p
FeaturesFollowProfile(f, p) ==
    /\ {"node_parsing", "source_parsing", "macro_parsing"} \subseteq Elements(f)
    /\ ("parent_lineage" \in Elements(f)) <=> p.hasParentMap
    /\ ("child_lineage" \in Elements(f)) <=> p.hasChildMap
    /\ ("modern_node_structure" \in Elements(f)) <=> (p.nodeStructure = "modern")
    /\ ("legacy_node_structure" \in Elements(f)) <=> (p.nodeStructure # "modern")

\* C13 as stated: in every reachable state the feature list get_schema_info
\* returns contains node, source and macro parsing, parent_lineage and
\* child_lineage exactly by the stored flags, and exactly one of the two
\* node-structure features.
C13_FeatureListInEveryState ==
    (ret.t = "query" /\ ret.op = "get_schema_info")
        => LET f == ret.res.v.supported_features IN
           /\ {"node_parsing", "source_parsing", "macro_parsing"} \subseteq Elements(f)
           /\ Cardinality({"modern_node_structure", "legacy_node_structure"}
                          \cap Elements(f)) = 1
           /\ "schema_version_info" \in DOMAIN conn.metadata
                  => FeaturesFollowProfile(f, conn.metadata["schema_version_info"].json)

\* C13 amended: when a profile is stored, the feature list contains node,
\* source and macro parsing, parent_lineage and child_lineage exactly by the
\* stored flags and exactly one node-structure feature by the stored
\* nodeStructure; when no profile is stored (no refresh has reached the
\* tables yet) the list is empty.
C13_FeatureListFollowsStoredProfile ==
    (ret.t = "query" /\ ret.op = "get_schema_info")
        => LET f == ret.res.v.supported_features IN
           IF "schema_version_info" \in DOMAIN conn.metadata
           THEN /\ FeaturesFollowProfile(f, conn.metadata["schema_version_info"].json)
                /\ Len(f) = Cardinality(Elements(f))
           ELSE f = <<>>

\* C13 witness: the features of a stored legacy profile
C13_Witness ==
    /\ ret.t = "query"
    /\ ret.op = "get_schema_info"
    /\ "schema_version_info" \in DOMAIN conn.metadata
    /\ ~conn.metadata["schema_version_info"].json.hasParentMap
    /\ "legacy_node_structure" \in Elements(ret.res.v.supported_features)

\* a document whose refresh on empty tables raises nothing
Ingestible(d) ==
    /\ detect_schema_version(d).t = "returns"
    /\ LET lineage == extract_lineage_maps(d, detect_schema_version(d).v) IN
       /\ insert_entities(NoRows, d.nodes, 1).ok
       /\ insert_entities(NoRows, d.sources, 1).ok
       /\ insert_entities(NoRows, d.macros, 1).ok
       /\ insert_edges({}, lineage.parent_map, 1, 1).ok
       /\ insert_edges({}, lineage.child_map, 1, 1).ok

\* C14: after a call that failed (no path, a refresh that raised at any step,
\* a node not found) a refresh of a valid manifest succeeds and leaves the
\* tables that the same refresh writes from empty tables, committed; and the
\* queries asked after a failed refresh answer.
C14_UsableAfterFailure ==
    /\ (pc = "returned" /\ prior # "none" /\ man # NoDoc /\ Ingestible(man))
           => /\ outcome.t = "ok"
              /\ conn = Ingested(man)
              /\ disk = conn
              /\ ~in_txn
    /\ (ret.t = "query" /\ outcome.t \in {"failed", "raises"})
           => \/ ret.res.t = "returns"
              \/ (ret.op = "get_model_info" /\ ret.id \notin DOMAIN conn.nodes)

\* C14 witness: the refresh that succeeded came after one that had raised at
\* the lineage edges and had left its transaction open
C14_Witness ==
    /\ pc = "returned"
    /\ prior = "edges"
    /\ pre # preDisk
    /\ outcome.t = "ok"
    /\ DOMAIN conn.nodes # {}
    /\ conn # pre

\* a step of one of the four queries: the engine is idle before and after
\* it, and it is not the second connection that read
IsQueryStep == pc = "idle" /\ pc' = "idle" /\ ret'.t = "query" /\ obs'.t = "none"

\* C15: a query step, whether it returns or raises, leaves every table, the
\* database file and the transaction state as they were.
C15_QueriesDoNotMutate ==
    [][IsQueryStep => (conn' = conn /\ disk' = disk /\ in_txn' = in_txn)]_vars

\* C15 witness: get_model_info has raised on tables that hold nodes and edges
C15_Witness ==
    /\ ret.t = "query"
    /\ ret.op = "get_model_info"
    /\ ret.res.t = "raises"
    /\ DOMAIN conn.nodes # {}
    /\ conn.parent_map # {}

\* the (key, listed identifier) pairs of a lineage map
Pairs(m) ==
    UNION {{<<m[i].k, m[i].v[j]>> : j \in 1..Len(m[i].v)} : i \in 1..Len(m)}

\* the (node, declared parent) pairs of the nodes of a document
DeclaredPairs(nodes) ==
    UNION {{<<nodes[i].k, DependsOn(nodes[i].v)[j]>> :
                j \in 1..Len(DependsOn(nodes[i].v))} : i \in 1..Len(nodes)}

VersionOf(d) == detect_schema_version(d).v.version

\* C16: for a version below 4 the child-to-parents map has an entry for
\* exactly the nodes with a non-empty depends_on.nodes, equal to that list,
\* the parent-to-children map is its inverse, native maps in the document are
\* ignored and nodes without dependencies raise nothing; after the refresh
\* the queries return the declared parents and their inverse.
C16_ReconstructionFromDependsOn ==
    /\ (pc = "clear" /\ VersionOf(man) < 4)
           => /\ Keys(maps.parent_map)
                     = {man.nodes[i].k : i \in {n \in 1..Len(man.nodes) :
                                                   DependsOn(man.nodes[n].v) # <<>>}}
              /\ \A i \in 1..Len(maps.parent_map) :
                     \E n \in 1..Len(man.nodes) :
                         /\ man.nodes[n].k = maps.parent_map[i].k
                         /\ maps.parent_map[i].v = DependsOn(man.nodes[n].v)
              /\ Pairs(maps.child_map) = {<<e[2], e[1]>> : e \in Pairs(maps.parent_map)}
              /\ \A i \in 1..Len(maps.child_map) :
                     Len(maps.child_map[i].v)
                         = Cardinality({<<n, j>> \in (1..Len(man.nodes)) \X (1..MaxDeps + 1) :
                                           /\ j <= Len(DependsOn(man.nodes[n].v))
                                           /\ DependsOn(man.nodes[n].v)[j]
                                                  = maps.child_map[i].k})
    /\ (pc = "returned" /\ outcome.t = "ok" /\ VersionOf(man) < 4)
           => \A x \in QueryIds :
                  /\ Elements(get_upstream_lineage(conn, x))
                         = {e[2] : e \in {d \in DeclaredPairs(man.nodes) : d[1] = x}}
                  /\ Elements(get_downstream_lineage(conn, x))
                         = {e[1] : e \in {d \in DeclaredPairs(man.nodes) : d[2] = x}}

\* C16 witness: a legacy document in which a depends on b and b on nothing
\* has been refreshed
C16_Witness ==
    /\ pc = "returned"
    /\ outcome.t = "ok"
    /\ VersionOf(man) = 2
    /\ DeclaredPairs(man.nodes) = {<<"a", "b">>}
    /\ get_upstream_lineage(conn, "a") = <<"b">>
    /\ get_downstream_lineage(conn, "b") = <<"a">>
    /\ get_upstream_lineage(conn, "b") = <<>>

\* C17: for a version of 4 or more each lineage map is the document's own
\* parent_map / child_map where the key is present and empty where it is
\* missing, whatever the nodes declare in depends_on.nodes; for a version
\* below 4 nothing of the document's own maps is used.
C17_NativeMapsVerbatim ==
    pc = "clear"
        => IF VersionOf(man) >= 4
           THEN /\ maps.parent_map = IF man.parent_map.t = "absent" THEN <<>>
                                     ELSE man.parent_map.e
                /\ maps.child_map = IF man.child_map.t = "absent" THEN <<>>
                                    ELSE man.child_map.e
           ELSE Pairs(maps.parent_map) = DeclaredPairs(man.nodes)

\* C17 witness: a modern document whose parent_map says b -> c while its node
\* a declares the parent b, and which has no child_map
C17_Witness ==
    /\ pc = "clear"
    /\ VersionOf(man) = 4
    /\ DeclaredPairs(man.nodes) = {<<"a", "b">>}
    /\ maps.parent_map = <<Entry("b", <<"c">>)>>
    /\ maps.child_map = <<>>

\* C19: for a version below 4, when node x comes before node y in the
\* document's nodes and both declare the parent p, x stands before y in the
\* child list built for p.
C19_ChildrenInManifestOrder ==
    (pc = "clear" /\ VersionOf(man) < 4)
        => \A nx \in 1..Len(man.nodes), ny \in 1..Len(man.nodes), p \in QueryIds :
               (/\ nx < ny
                /\ p \in Elements(DependsOn(man.nodes[nx].v))
                /\ p \in Elements(DependsOn(man.nodes[ny].v)))
                   => /\ p \in Keys(maps.child_map)
                      /\ LET l == maps.child_map[IndexOf(maps.child_map, p)].v IN
                         /\ man.nodes[nx].k \in Elements(l)
                         /\ man.nodes[ny].k \in Elements(l)
                         /\ \A u \in 1..Len(l), v \in 1..Len(l) :
                                (l[u] = man.nodes[nx].k /\ l[v] = man.nodes[ny].k)
                                    => u < v

\* C19 witness: b comes before a in the document, both declare the parent c,
\* and the child list of c is b, a
C19_Witness ==
    /\ pc = "clear"
    /\ VersionOf(man) = 2
    /\ maps.child_map = <<Entry("c", <<"b", "a">>)>>

\* a candidate field that is present: the key is in the definition with a
\* value other than null
Present(x) == x.t \notin {"absent", "null"}

\* the first candidate that is present, else the default
FirstPresent(candidates, default) ==
    IF \E i \in 1..Len(candidates) : Present(candidates[i])
    THEN candidates[CHOOSE i \in 1..Len(candidates) :
                        /\ Present(candidates[i])
                        /\ \A j \in 1..(i - 1) : ~Present(candidates[j])]
    ELSE default

\* C18 as stated: each canonical field is the first candidate present in the
\* fixed order, else its default: compiled code compiled_code, compiled_sql,
\* null; raw code raw_code, raw_sql, sql, ""; database database,
\* database_name; schema schema, schema_name; alias alias, name; the
\* identifier unique_id, else the manifest key.
C18_FirstPresentWins ==
    nout.t = "returns"
        => LET n == nin.node IN
           /\ nout.v.compiled_code
                  = FirstPresent(<<n.compiled_code, n.compiled_sql>>, Null)
           /\ nout.v.raw_code
                  = FirstPresent(<<n.raw_code, n.raw_sql, n.sql>>, Str(<<>>))
           /\ nout.v.database_name = FirstPresent(<<n.database, n.database_name>>, Null)
           /\ nout.v.schema_name = FirstPresent(<<n.schema, n.schema_name>>, Null)
           /\ nout.v.alias = FirstPresent(<<n.alias, n.name>>, Null)
           /\ nout.v.unique_id
                  = IF n.unique_id.t = "absent" THEN nin.key ELSE n.unique_id.id

\* a candidate that counts: present, not null and not empty
NonEmpty(x) == x.t = "str" /\ x.s # <<>>

\* the first candidate that is non-empty; when none is, what the last
\* candidate holds if its key is present, else the default
FirstNonEmpty(candidates, default) ==
    IF \E i \in 1..Len(candidates) : NonEmpty(candidates[i])
    THEN candidates[CHOOSE i \in 1..Len(candidates) :
                        /\ NonEmpty(candidates[i])
                        /\ \A j \in 1..(i - 1) : ~NonEmpty(candidates[j])]
    ELSE IF candidates[Len(candidates)].t = "absent" THEN default
    ELSE candidates[Len(candidates)]

\* C18 amended: each canonical field is the first candidate in the fixed
\* order that is non-empty (a missing, null or empty candidate is passed
\* over); when none is, the result is what the last candidate holds (null or
\* the empty text) if its key is present, else the default (null, and the
\* empty text for raw code); the identifier is unique_id if the key is
\* present, else the manifest key; nothing raises.
C18_FirstNonEmptyWins ==
    /\ nin # NotRun /\ nout # NotRun => nout.t = "returns"
    /\ nout.t = "returns"
           => LET n == nin.node IN
              /\ nout.v.compiled_code
                     = FirstNonEmpty(<<n.compiled_code, n.compiled_sql>>, Null)
              /\ nout.v.raw_code
                     = FirstNonEmpty(<<n.raw_code, n.raw_sql, n.sql>>, Str(<<>>))
              /\ nout.v.database_name
                     = FirstNonEmpty(<<n.database, n.database_name>>, Null)
              /\ nout.v.schema_name = FirstNonEmpty(<<n.schema, n.schema_name>>, Null)
              /\ nout.v.alias = FirstNonEmpty(<<n.alias, n.name>>, Null)
              /\ nout.v.unique_id
                     = IF n.unique_id.t = "absent" THEN nin.key ELSE n.unique_id.id

\* C18 witness: an empty compiled_code with a compiled_sql, a null sql, no
\* unique_id: the columns are compiled_sql, null and the manifest key
C18_Witness ==
    /\ nout.t = "returns"
    /\ nin.node.compiled_code = Str(<<>>)
    /\ nin.node.compiled_sql = Str(<<"2">>)
    /\ nout.v.compiled_code = Str(<<"2">>)
    /\ nin.node.raw_code = Absent
    /\ nin.node.raw_sql = Absent
    /\ nin.node.sql = Null
    /\ nout.v.raw_code = Null
    /\ nin.node.unique_id = Absent
    /\ nout.v.unique_id = "a"

====
